---- MODULE Spec2Model ----
(***************************************************************************)
(* Model of scripts/lint-sorted.py: a script that runs ESLint with JSON    *)
(* output, keeps the files that have issues, filters them by path, sorts   *)
(* them by issue count and prints a summary and a detailed listing.        *)
(*                                                                         *)
(* Strings the script inspects (command-line tokens, paths, the working    *)
(* directory) are sequences of characters; a character is a one-character  *)
(* string, except "sup2", which stands for U+00B2 SUPERSCRIPT TWO.  Printed*)
(* lines are records, one per call of print().                             *)
(***************************************************************************)
EXTENDS Integers, Sequences, FiniteSets, TLC

VARIABLES
    argv,               \* sys.argv[1:]
    env,                \* what the script finds outside itself: the linter, pwd
    pc,                 \* position in the script
    filter_mode,        \* line 38
    detail_count,       \* line 38
    result,             \* line 41: the CompletedProcess
    data,               \* line 46
    cwd,                \* line 47
    files_with_issues,  \* lines 50-69
    exc,                \* the exception in flight, "none" when there is none
    output,             \* the lines printed so far
    exit_code,          \* the process's exit status, -1 while it runs
    probe               \* results of the pure-function specifications

vars == <<argv, env, pc, filter_mode, detail_count, result, data, cwd,
          files_with_issues, exc, output, exit_code, probe>>

----------------------------------------------------------------------------
(* Bounds of the model.                                                    *)

MaxArgs == 3
MaxFiles == 3
MaxMsgs == 3
MaxReportFiles == 22
MaxChunks == 3
MaxPieces == 6

----------------------------------------------------------------------------
(* Strings.                                                                *)

Min(a, b) == IF a < b THEN a ELSE b

Max(a, b) == IF a > b THEN a ELSE b

SeqsUpTo(S, n) == UNION {[1..k -> S] : k \in 0..n}

StartsWith(s, p) == Len(p) <= Len(s) /\ SubSeq(s, 1, Len(p)) = p

\* Python's `sub in s`
Contains(s, sub) ==
    \E i \in 0..(Len(s) - Len(sub)) : SubSeq(s, i + 1, i + Len(sub)) = sub

\* Python's s.replace(old, ''), old non-empty: every non-overlapping
\* occurrence of old, scanning from the left, is removed.
RECURSIVE Replace(_, _)
Replace(s, old) ==
    IF Len(s) < Len(old) THEN s
    ELSE IF SubSeq(s, 1, Len(old)) = old
         THEN Replace(SubSeq(s, Len(old) + 1, Len(s)), old)
         ELSE <<Head(s)>> \o Replace(Tail(s), old)

LowerChar(c) ==
    CASE c = "S" -> "s" [] c = "R" -> "r" [] c = "C" -> "c"
      [] c = "T" -> "t" [] c = "E" -> "e"
      [] c = "A" -> "a" [] c = "L" -> "l"
      [] OTHER -> c

\* Python's str.lower()
Lower(s) == [i \in 1..Len(s) |-> LowerChar(s[i])]

AsciiDigits == {"0", "1", "2", "3", "4", "5", "6", "7", "8", "9"}

\* Characters str.isdigit() accepts: the decimal digits and the characters of
\* Unicode type Digit, such as the superscript digits.
DigitChars == AsciiDigits \cup {"sup2"}

\* Python's str.isdigit()
IsDigit(s) == Len(s) > 0 /\ \A i \in 1..Len(s) : s[i] \in DigitChars

DigitValue(c) ==
    CASE c = "0" -> 0 [] c = "1" -> 1 [] c = "2" -> 2 [] c = "3" -> 3
      [] c = "4" -> 4 [] c = "5" -> 5 [] c = "6" -> 6 [] c = "7" -> 7
      [] c = "8" -> 8 [] c = "9" -> 9

RECURSIVE DecimalValue(_)
DecimalValue(s) ==
    IF s = <<>> THEN 0
    ELSE 10 * DecimalValue(SubSeq(s, 1, Len(s) - 1)) + DigitValue(s[Len(s)])

\* Python's int(s) on a string str.isdigit() accepted: the value, or
\* ValueError when a character is not a decimal digit.
IntOf(s) ==
    IF \A i \in 1..Len(s) : s[i] \in AsciiDigits
    THEN [raised |-> "none", value |-> DecimalValue(s)]
    ELSE [raised |-> "ValueError", value |-> 0]

----------------------------------------------------------------------------
(* get_options, lines 8-19.                                                *)

ModeWords == {<<"s", "r", "c">>, <<"t", "e", "s", "t">>, <<"a", "l", "l">>}

ModeName(w) ==
    CASE w = <<"s", "r", "c">> -> "src"
      [] w = <<"t", "e", "s", "t">> -> "test"
      [] w = <<"a", "l", "l">> -> "all"

DefaultDetailCount == 10

RECURSIVE OptionsLoop(_, _, _)
OptionsLoop(args, mode, count) ==
    IF args = <<>>
    THEN [raised |-> "none", filter_mode |-> mode, detail_count |-> count]
    ELSE LET arg == Head(args) IN
         IF Lower(arg) \in ModeWords
         THEN OptionsLoop(Tail(args), ModeName(Lower(arg)), count)
         ELSE IF IsDigit(arg)
              THEN IF IntOf(arg).raised = "none"
                   THEN OptionsLoop(Tail(args), mode, IntOf(arg).value)
                   ELSE [raised |-> IntOf(arg).raised,
                         filter_mode |-> mode, detail_count |-> count]
              ELSE OptionsLoop(Tail(args), mode, count)

get_options(args) == OptionsLoop(args, "all", DefaultDetailCount)

----------------------------------------------------------------------------
(* should_include_file, lines 21-29.                                       *)

SlashTest == <<"/", "t", "e", "s", "t">>
DotTestDot == <<".", "t", "e", "s", "t", ".">>
DotSpecDot == <<".", "s", "p", "e", "c", ".">>

\* lines 21-29 with '.spec.' missing from line 28
should_include_file_spec_forgotten(file_path, mode) ==
    IF mode = "all" THEN TRUE
    ELSE IF mode = "test"
         THEN Contains(file_path, SlashTest) \/ Contains(file_path, DotTestDot)
                \/ Contains(file_path, DotSpecDot)
         ELSE IF mode = "src"
              THEN ~(Contains(file_path, SlashTest)
                       \/ Contains(file_path, DotTestDot))
              ELSE TRUE

should_include_file(file_path, mode) ==
    IF mode = "all" THEN TRUE
    ELSE IF mode = "test"
         THEN Contains(file_path, SlashTest) \/ Contains(file_path, DotTestDot)
                \/ Contains(file_path, DotSpecDot)
         ELSE IF mode = "src"
              THEN ~(Contains(file_path, SlashTest)
                       \/ Contains(file_path, DotTestDot)
                       \/ Contains(file_path, DotSpecDot))
              ELSE TRUE

----------------------------------------------------------------------------
(* format_message, lines 31-35.  A message's ruleId is "" when the linter  *)
(* gave none (null).                                                       *)

format_message(msg) ==
    [k |-> "msg",
     line |-> msg.line,
     column |-> msg.column,
     severity |-> IF msg.severity = 2 THEN "error" ELSE "warning",
     message |-> msg.message,
     rule |-> IF msg.ruleId # "" THEN msg.ruleId ELSE ""]

----------------------------------------------------------------------------
(* Building and sorting files_with_issues, lines 50-69.                    *)

\* line 53: file_result['filePath'].replace(cwd + '/', '')
RelativePath(filePath, wd) == Replace(filePath, wd \o <<"/">>)

\* lines 59-66
FileInfo(file_result, file_path) ==
    [path |-> file_path,
     errors |-> file_result.errorCount,
     warnings |-> file_result.warningCount,
     total |-> file_result.errorCount + file_result.warningCount,
     messages |-> file_result.messages]

\* line 52 with >= for the second >
HasIssuesOrNone(file_result) ==
    file_result.errorCount > 0 \/ file_result.warningCount >= 0

\* line 52
HasIssues(file_result) ==
    file_result.errorCount > 0 \/ file_result.warningCount > 0

\* lines 50-66, the loop over data
RECURSIVE BuildReports(_, _, _)
BuildReports(items, wd, mode) ==
    IF items = <<>> THEN <<>>
    ELSE LET file_result == Head(items)
             rest == BuildReports(Tail(items), wd, mode)
             file_path == RelativePath(file_result.filePath, wd)
         IN  IF HasIssues(file_result)
             THEN IF ~should_include_file(file_path, mode)
                  THEN rest
                  ELSE <<FileInfo(file_result, file_path)>> \o rest
             ELSE rest

Reverse(s) == [i \in 1..Len(s) |-> s[Len(s) + 1 - i]]

\* x goes behind every element whose key is not greater: equal keys keep
\* their order.
RECURSIVE InsertByTotal(_, _)
InsertByTotal(sorted, x) ==
    IF sorted = <<>> THEN <<x>>
    ELSE IF x.total < Head(sorted).total
         THEN <<x>> \o sorted
         ELSE <<Head(sorted)>> \o InsertByTotal(Tail(sorted), x)

\* A stable ascending sort by the key x['total'].
RECURSIVE StableSortAscending(_)
StableSortAscending(s) ==
    IF s = <<>> THEN <<>>
    ELSE InsertByTotal(StableSortAscending(SubSeq(s, 1, Len(s) - 1)), s[Len(s)])

\* sorted ascending, then reversed: equal keys end in reverse order
SortReportsUnstable(s) == Reverse(StableSortAscending(s))

\* line 69: list.sort(key=..., reverse=True) reverses the list, sorts it
\* ascending with a stable sort, and reverses it again.
SortReports(s) == Reverse(StableSortAscending(Reverse(s)))

----------------------------------------------------------------------------
(* The report, lines 71-119.                                               *)

\* Python's s[:k]
Slice(s, k) ==
    IF k >= 0 THEN SubSeq(s, 1, Min(k, Len(s)))
    ELSE SubSeq(s, 1, Max(0, Len(s) + k))

\* lines 71-75
filter_desc(mode) ==
    CASE mode = "all" -> "All server files"
      [] mode = "src" -> "Source files (excluding tests)"
      [] mode = "test" -> "Test files only"

\* line 77
HeaderLines(files, mode) ==
    <<[k |-> "header", desc |-> filter_desc(mode), n |-> Len(files)]>>

SummaryLimit == 20

\* lines 80-82: enumerate(files_with_issues[:20])
RECURSIVE SummaryEntries(_, _)
SummaryEntries(shown, i) ==
    IF i > Len(shown) THEN <<>>
    ELSE <<[k |-> "rank", rank |-> i, path |-> shown[i].path],
           [k |-> "counts", errors |-> shown[i].errors,
            warnings |-> shown[i].warnings, total |-> shown[i].total]>>
         \o SummaryEntries(shown, i + 1)

SummaryLines(files) == SummaryEntries(Slice(files, SummaryLimit), 1)

\* lines 84-85
MoreLines(files) ==
    IF Len(files) > SummaryLimit
    THEN <<[k |-> "more", n |-> Len(files) - SummaryLimit]>>
    ELSE <<>>

\* lines 88-90
DetailHeaderLines(count) ==
    <<[k |-> "rule"], [k |-> "detail_title", n |-> count], [k |-> "rule"]>>

FormatAll(msgs) == [i \in 1..Len(msgs) |-> format_message(msgs[i])]

\* line 97 with >= 1 for == 2
IsErrorOrWarning(msg) == msg.severity >= 1

\* line 97
IsError(msg) == msg.severity = 2

\* line 98
IsWarning(msg) == msg.severity = 1

\* lines 93-112, the body of the detail loop for the file of rank i
DetailEntry(file_info, i) ==
    LET errors == SelectSeq(file_info.messages, IsError)
        warnings == SelectSeq(file_info.messages, IsWarning)
    IN  <<[k |-> "file", rank |-> i, path |-> file_info.path,
           total |-> file_info.total],
          [k |-> "dashes", n |-> Len(file_info.path) + 20]>>
        \o (IF errors # <<>>
            THEN <<[k |-> "ERRORS", n |-> Len(errors)]>> \o FormatAll(errors)
                 \o <<[k |-> "blank"]>>
            ELSE <<>>)
        \o (IF warnings # <<>>
            THEN <<[k |-> "WARNINGS", n |-> Len(warnings)]>>
                 \o FormatAll(warnings) \o <<[k |-> "blank"]>>
            ELSE <<>>)
        \o <<[k |-> "blank"]>>

\* line 92: enumerate(files_with_issues[:detail_count])
RECURSIVE DetailEntries(_, _)
DetailEntries(shown, i) ==
    IF i > Len(shown) THEN <<>>
    ELSE DetailEntry(shown[i], i) \o DetailEntries(shown, i + 1)

\* line 92 slicing the summary's 20 files
DetailLinesOfSummary(files, count) ==
    DetailEntries(Slice(Slice(files, SummaryLimit), count), 1)

DetailLines(files, count) == DetailEntries(Slice(files, count), 1)

\* lines 114-119
UsageLines(mode, count) ==
    <<[k |-> "usage"],
      [k |-> "current", mode |-> mode, n |-> count],
      [k |-> "examples"], [k |-> "example_src"], [k |-> "example_test"],
      [k |-> "example_all"]>>

\* lines 77-119
ReportLines(files, mode, count) ==
    HeaderLines(files, mode) \o SummaryLines(files) \o MoreLines(files)
      \o DetailHeaderLines(count) \o DetailLines(files, count)
      \o UsageLines(mode, count)

----------------------------------------------------------------------------
(* The linter's standard output and json.loads, line 46.                   *)
(* A captured text is empty, blank (white space only), garbage, a JSON     *)
(* document cut short, or a JSON document; a document is an array of       *)
(* per-file results or, when the tool prints something else, a number.     *)

NoDoc == [type |-> "none", items |-> <<>>]

TextOf(form) == [form |-> form, doc |-> NoDoc]

ArrayText(items) ==
    [form |-> "document", doc |-> [type |-> "array", items |-> items]]

NumberText == [form |-> "document", doc |-> [type |-> "number", items |-> <<>>]]

\* `result.stdout is not None`: true of every captured text
NotNone(text) == text.form \in {"empty", "blank", "garbage", "truncated", "document"}

\* line 45: `if result.stdout:` is the truth value of a string
Truthy(text) == text.form # "empty"

json_loads(text) ==
    IF text.form = "document"
    THEN [raised |-> "none", value |-> text.doc]
    ELSE [raised |-> "JSONDecodeError", value |-> NoDoc]

\* ESLint's per-file result: errorCount and warningCount count the messages
\* of severity 2 and of severity 1.
LintResult(filePath, messages) ==
    [filePath |-> filePath,
     errorCount |-> Cardinality({i \in 1..Len(messages) : messages[i].severity = 2}),
     warningCount |-> Cardinality({i \in 1..Len(messages) : messages[i].severity = 1}),
     messages |-> messages]

----------------------------------------------------------------------------
(* The script, lines 37-129.                                               *)

NoResult == [captured |-> FALSE, stdout |-> TextOf("empty"), returncode |-> 0]

Raise(e) ==
    /\ exc' = e
    /\ pc' = "except"

\* line 38
GetOptions ==
    /\ pc = "options"
    /\ LET o == get_options(argv) IN
       IF o.raised # "none"
       THEN /\ Raise(o.raised)
            /\ UNCHANGED <<filter_mode, detail_count>>
       ELSE /\ filter_mode' = o.filter_mode
            /\ detail_count' = o.detail_count
            /\ pc' = "run"
            /\ exc' = exc
    /\ UNCHANGED <<argv, env, result, data, cwd, files_with_issues, output,
                   exit_code, probe>>

\* lines 41-43: subprocess.run without check=True raises when the program
\* cannot be started, and returns whatever the exit status is otherwise.
RunLinter ==
    /\ pc = "run"
    /\ IF env.launch = "missing"
       THEN /\ Raise("FileNotFoundError")
            /\ result' = result
       ELSE /\ result' = [captured |-> TRUE, stdout |-> env.stdout,
                          returncode |-> env.returncode]
            /\ pc' = "stdout"
            /\ exc' = exc
    /\ UNCHANGED <<argv, env, filter_mode, detail_count, data, cwd,
                   files_with_issues, output, exit_code, probe>>

\* line 45
CheckStdout ==
    /\ pc = "stdout"
    /\ pc' = IF Truthy(result.stdout) THEN "loads" ELSE "end"
    /\ UNCHANGED <<argv, env, filter_mode, detail_count, result, data, cwd,
                   files_with_issues, exc, output, exit_code, probe>>

\* line 46
ParseJson ==
    /\ pc = "loads"
    /\ LET r == json_loads(result.stdout) IN
       IF r.raised # "none"
       THEN /\ Raise(r.raised)
            /\ data' = data
       ELSE /\ data' = r.value
            /\ pc' = "pwd"
            /\ exc' = exc
    /\ UNCHANGED <<argv, env, filter_mode, detail_count, result, cwd,
                   files_with_issues, output, exit_code, probe>>

\* line 47: check_output raises CalledProcessError when pwd exits non-zero
GetCwd ==
    /\ pc = "pwd"
    /\ IF env.pwd = "fails"
       THEN /\ Raise("CalledProcessError")
            /\ cwd' = cwd
       ELSE /\ cwd' = env.cwd
            /\ pc' = "build"
            /\ exc' = exc
    /\ UNCHANGED <<argv, env, filter_mode, detail_count, result, data,
                   files_with_issues, output, exit_code, probe>>

\* lines 50-69: the loop over data, then the sort
BuildAndSort ==
    /\ pc = "build"
    /\ IF data.type # "array"
       THEN /\ Raise("TypeError")
            /\ files_with_issues' = files_with_issues
       ELSE /\ files_with_issues' =
                  SortReports(BuildReports(data.items, cwd, filter_mode))
            /\ pc' = "report"
            /\ exc' = exc
    /\ UNCHANGED <<argv, env, filter_mode, detail_count, result, data, cwd,
                   output, exit_code, probe>>

\* lines 71-119
PrintReport ==
    /\ pc = "report"
    /\ output' = output
                   \o ReportLines(files_with_issues, filter_mode, detail_count)
    /\ pc' = "end"
    /\ UNCHANGED <<argv, env, filter_mode, detail_count, result, data, cwd,
                   files_with_issues, exc, exit_code, probe>>

\* the end of the script: the interpreter exits with status 0
ExitNormally ==
    /\ pc = "end"
    /\ exit_code' = 0
    /\ pc' = "done"
    /\ UNCHANGED <<argv, env, filter_mode, detail_count, result, data, cwd,
                   files_with_issues, exc, output, probe>>

\* The classes each exception is an instance of.
ClassesOf(e) ==
    CASE e = "JSONDecodeError" -> {"JSONDecodeError", "ValueError", "Exception"}
      [] e = "CalledProcessError" -> {"CalledProcessError", "Exception"}
      [] e = "FileNotFoundError" -> {"FileNotFoundError", "OSError", "Exception"}
      [] e = "ValueError" -> {"ValueError", "Exception"}
      [] e = "TypeError" -> {"TypeError", "Exception"}

\* a handler that prints and falls off the end of the script
DieWithoutExit(diagnostic) ==
    /\ output' = Append(output, [k |-> diagnostic, error |-> exc])
    /\ exit_code' = 0
    /\ pc' = "done"
    /\ UNCHANGED <<argv, env, filter_mode, detail_count, result, data, cwd,
                   files_with_issues, exc, probe>>

\* print(diagnostic including the error), then sys.exit(1)
Die(diagnostic) ==
    /\ output' = Append(output, [k |-> diagnostic, error |-> exc])
    /\ exit_code' = 1
    /\ pc' = "done"
    /\ UNCHANGED <<argv, env, filter_mode, detail_count, result, data, cwd,
                   files_with_issues, exc, probe>>

\* lines 121-123
ExceptJSONDecodeError ==
    /\ pc = "except"
    /\ "JSONDecodeError" \in ClassesOf(exc)
    /\ Die("Error parsing ESLint JSON output")

\* lines 124-126
ExceptCalledProcessError ==
    /\ pc = "except"
    /\ "JSONDecodeError" \notin ClassesOf(exc)
    /\ "CalledProcessError" \in ClassesOf(exc)
    /\ Die("Error running ESLint")

\* lines 127-129
ExceptException ==
    /\ pc = "except"
    /\ "JSONDecodeError" \notin ClassesOf(exc)
    /\ "CalledProcessError" \notin ClassesOf(exc)
    /\ "Exception" \in ClassesOf(exc)
    /\ Die("Unexpected error")

Next ==
    \/ GetOptions
    \/ RunLinter
    \/ CheckStdout
    \/ ParseJson
    \/ GetCwd
    \/ BuildAndSort
    \/ PrintReport
    \/ ExitNormally
    \/ ExceptJSONDecodeError
    \/ ExceptCalledProcessError
    \/ ExceptException

----------------------------------------------------------------------------
(* Inputs.                                                                 *)

WorkDir == <<"/", "w">>

Under(wd, rel) == wd \o <<"/">> \o rel

SrcFile == <<"a", ".", "t", "s">>
TestFile == <<"a", ".", "t", "e", "s", "t", ".", "t", "s">>

E1 == [line |-> 1, column |-> 1, severity |-> 2, message |-> "m1", ruleId |-> "r1"]
E2 == [line |-> 2, column |-> 5, severity |-> 2, message |-> "m2", ruleId |-> ""]
W1 == [line |-> 3, column |-> 1, severity |-> 1, message |-> "m3", ruleId |-> "r2"]
W2 == [line |-> 4, column |-> 2, severity |-> 1, message |-> "m4", ruleId |-> "r1"]

Messages == {E1, E2, W1, W2}

Src == <<"s", "r", "c">>
Test == <<"T", "e", "s", "t">>
All == <<"a", "l", "l">>
Sup2 == <<"sup2">>

NoProbe == [kind |-> "none"]

InitWith(a, e) ==
    /\ argv = a
    /\ env = e
    /\ pc = "options"
    /\ filter_mode = ""
    /\ detail_count = -1
    /\ result = NoResult
    /\ data = NoDoc
    /\ cwd = <<>>
    /\ files_with_issues = <<>>
    /\ exc = "none"
    /\ output = <<>>
    /\ exit_code = -1
    /\ probe = NoProbe

Healthy(text) ==
    [launch |-> "ok", stdout |-> text, returncode |-> 1, pwd |-> "ok",
     cwd |-> WorkDir]

\* Every way the linter and pwd can fail, with a few argument lists.
FaultInputs ==
    {<<a, e>> :
        a \in {<<>>, <<Src>>, <<Test, <<"1">>>>, <<Sup2>>},
        e \in [launch : {"ok", "missing"},
               stdout : {TextOf("empty"), TextOf("blank"), TextOf("garbage"),
                         TextOf("truncated"), NumberText, ArrayText(<<>>),
                         ArrayText(<<LintResult(Under(WorkDir, SrcFile),
                                                <<E1, W1>>)>>)},
               returncode : {0, 1, 2},
               pwd : {"ok", "fails"},
               cwd : {WorkDir}]}

\* Every list of up to MaxFiles results of source and test files with
\* zero, one or two issues.
LightFiles ==
    {LintResult(Under(WorkDir, f), m) :
        f \in {SrcFile, TestFile}, m \in {<<>>, <<E1>>, <<W1>>, <<W1, E1>>}}

RankingInputs ==
    {<<a, Healthy(ArrayText(items))>> :
        a \in {<<>>, <<Src>>, <<Test>>}, items \in SeqsUpTo(LightFiles, MaxFiles)}

\* One file with every list of up to MaxMsgs messages, before a file with
\* one warning.
DetailInputs ==
    {<<a, Healthy(ArrayText(<<LintResult(Under(WorkDir, SrcFile), m),
                              LintResult(Under(WorkDir, TestFile), <<W2>>)>>))>> :
        a \in {<<>>, <<<<"1">>>>, <<<<"0">>>>}, m \in SeqsUpTo(Messages, MaxMsgs)}

DigitChar(d) ==
    CASE d = 0 -> "0" [] d = 1 -> "1" [] d = 2 -> "2" [] d = 3 -> "3"
      [] d = 4 -> "4" [] d = 5 -> "5" [] d = 6 -> "6" [] d = 7 -> "7"
      [] d = 8 -> "8" [] d = 9 -> "9"

Repeat(m, n) == [i \in 1..n |-> m]

\* The i-th file of a long result list: every fourth file is a test file.
LongPath(i) ==
    Under(WorkDir,
          (IF i % 4 = 0 THEN <<"t", "e", "s", "t", "/">> ELSE <<>>)
            \o <<"f", DigitChar(i \div 10), DigitChar(i % 10)>>)

LongMessages(g, i) ==
    CASE g = 1 -> <<E1>>
      [] g = 2 -> Repeat(E1, i % 3) \o Repeat(W1, i % 2)
      [] g = 3 -> Repeat(W2, 1 + (i % 4))

LongResults(g, n) == [i \in 1..n |-> LintResult(LongPath(i), LongMessages(g, i))]

\* Long result lists, around the summary's limit, with detail counts below
\* and above it.
LargeInputs ==
    {<<a, Healthy(ArrayText(LongResults(g, n)))>> :
        a \in {<<>>, <<<<"0">>>>, <<<<"3">>>>, <<<<"2", "1">>>>, <<<<"2", "5">>>>,
               <<Src, <<"2", "1">>>>, <<Test>>},
        g \in 1..3, n \in 0..MaxReportFiles}

Init ==
    \E in \in FaultInputs \cup RankingInputs \cup DetailInputs \cup LargeInputs :
        InitWith(in[1], in[2])

Spec == Init /\ [][Next]_vars

----------------------------------------------------------------------------
(* Properties of a run of the script.                                      *)

\* The list has been built and sorted (line 69 is behind).
Sorted == pc \in {"report", "end", "done"} /\ exc = "none" /\ data.type = "array"

\* The report has been printed (line 119 is behind).
Reported == pc \in {"end", "done"} /\ exc = "none" /\ data.type = "array"

Range(s) == {s[i] : i \in 1..Len(s)}

Lines(kind) == SelectSeq(output, LAMBDA l : l.k = kind)

WithTotal(s, t) == SelectSeq(s, LAMBDA f : f.total = t)

\* C1: every retained file report has total = errors + warnings and a total
\* that is not 0, and no printed line shows a file whose total is 0, whatever
\* the filter mode.
C1_RetainedTotals ==
    /\ \A i \in 1..Len(files_with_issues) :
          /\ files_with_issues[i].total
               = files_with_issues[i].errors + files_with_issues[i].warnings
          /\ files_with_issues[i].total # 0
    /\ \A j \in 1..Len(output) :
          /\ output[j].k = "counts" =>
                /\ output[j].total = output[j].errors + output[j].warnings
                /\ output[j].total # 0
          /\ output[j].k = "file" => output[j].total # 0

\* A run under a filter that dropped a file with issues and a file without
\* any, and retained and printed another.
C1_Witness ==
    /\ pc = "done"
    /\ filter_mode = "test"
    /\ data.type = "array"
    /\ \E i \in 1..Len(data.items) :
          data.items[i].errorCount + data.items[i].warningCount = 0
    /\ Len(files_with_issues) >= 1
    /\ Len(files_with_issues) < Len(data.items) - 1
    /\ Len(Lines("counts")) >= 1

\* C2: once sorted, the retained reports are non-increasing by total, and the
\* reports of each total are in the order in which the loop retained them,
\* which is the order of the linter's array.
C2_SortedStable ==
    Sorted =>
        /\ \A i \in 1..(Len(files_with_issues) - 1) :
              files_with_issues[i].total >= files_with_issues[i + 1].total
        /\ \A t \in {files_with_issues[i].total : i \in 1..Len(files_with_issues)}
                     \cup {f.total : f \in Range(BuildReports(data.items, cwd,
                                                              filter_mode))} :
              WithTotal(files_with_issues, t)
                = WithTotal(BuildReports(data.items, cwd, filter_mode), t)

\* A sorted list that moved a report forward and holds two different reports
\* of one total.
C2_Witness ==
    /\ Sorted
    /\ files_with_issues # BuildReports(data.items, cwd, filter_mode)
    /\ \E i \in 1..(Len(files_with_issues) - 1) :
          /\ files_with_issues[i].total = files_with_issues[i + 1].total
          /\ files_with_issues[i] # files_with_issues[i + 1]

\* C5: when the linter's captured standard output is empty, nothing is ever
\* printed and the script ends with exit code 0.
C5_EmptyOutputSilent ==
    (result.captured /\ result.stdout.form = "empty") =>
        /\ output = <<>>
        /\ exc = "none"
        /\ exit_code \in {-1, 0}
        /\ pc = "done" => exit_code = 0

\* A run whose linter printed nothing, ended.
C5_Witness ==
    /\ result.captured
    /\ result.stdout.form = "empty"
    /\ pc = "done"
    /\ exit_code = 0

\* C6: when the captured standard output is not empty and is not valid JSON
\* (cut short included), the script prints the JSON-parse diagnostic and
\* nothing else, and ends with exit code 1.
C6_MalformedJson ==
    (result.captured /\ result.stdout.form \in {"blank", "garbage", "truncated"}) =>
        /\ \A j \in 1..Len(output) :
              output[j].k = "Error parsing ESLint JSON output"
        /\ pc = "done" =>
              /\ output = <<[k |-> "Error parsing ESLint JSON output",
                             error |-> "JSONDecodeError"]>>
              /\ exit_code = 1

\* A run whose linter printed a JSON document cut short, ended.
C6_Witness ==
    /\ result.captured
    /\ result.stdout.form = "truncated"
    /\ pc = "done"
    /\ Len(output) = 1

\* C7: when the linter cannot be launched, the script prints the
\* process-invocation diagnostic, with the underlying error, and ends with
\* exit code 1; a linter that runs and exits non-zero does not end that way.
C7_LaunchFailureReported ==
    pc = "done" /\ get_options(argv).raised = "none" =>
        /\ env.launch = "missing" =>
              /\ output = <<[k |-> "Error running ESLint",
                             error |-> "FileNotFoundError"]>>
              /\ exit_code = 1
        /\ (env.launch = "ok" /\ env.returncode # 0 /\ env.pwd = "ok") =>
              Lines("Error running ESLint") = <<>>

\* The files the detail section covers.
Detailed == Slice(files_with_issues, detail_count)

\* C8: the summary prints the first min(20, n) reports of the sorted list,
\* ranked 1..min(20, n), and the "more files" notice iff n > 20, with n - 20;
\* the detail section prints the first min(N, n) reports, whatever the
\* summary's limit.
C8_SummaryAndDetailCounts ==
    Reported =>
        LET n == Len(files_with_issues)
            ranks == Lines("rank")
            counts == Lines("counts")
            files == Lines("file")
        IN  /\ Len(ranks) = Min(20, n)
            /\ Len(counts) = Min(20, n)
            /\ \A i \in 1..Len(ranks) :
                  /\ ranks[i].rank = i
                  /\ ranks[i].path = files_with_issues[i].path
                  /\ counts[i].total = files_with_issues[i].total
                  /\ counts[i].errors = files_with_issues[i].errors
                  /\ counts[i].warnings = files_with_issues[i].warnings
            /\ Lines("more") = IF n > 20 THEN <<[k |-> "more", n |-> n - 20]>>
                               ELSE <<>>
            /\ Len(files) = Min(detail_count, n)
            /\ \A i \in 1..Len(files) :
                  /\ files[i].rank = i
                  /\ files[i].path = files_with_issues[i].path
                  /\ files[i].total = files_with_issues[i].total

\* More than 20 reports, and a detail count above 20 and below their number:
\* the detail section covers a file the summary does not show.
C8_Witness ==
    /\ Reported
    /\ pc = "done"
    /\ Len(files_with_issues) > 20
    /\ detail_count > 20
    /\ detail_count < Len(files_with_issues)
    /\ Len(Lines("file")) = detail_count
    /\ Len(Lines("more")) = 1

\* The lines printed for the detailed file of rank i: from its "file" line
\* to the line before the next one, or before the usage block.
Section(i) ==
    LET starts == {j \in 1..Len(output) : output[j].k = "file"}
        first == CHOOSE j \in starts : output[j].rank = i
        stops == {j \in 1..Len(output) :
                     j > first /\ output[j].k \in {"file", "usage"}}
        stop == CHOOSE j \in stops : \A j2 \in stops : j <= j2
    IN  SubSeq(output, first, stop - 1)

Positions(sec, P(_)) == {j \in 1..Len(sec) : P(sec[j])}

Shown(msg) == [line |-> msg.line, column |-> msg.column, message |-> msg.message]

\* C9: in the section of every detailed file, the Error-severity messages
\* come under an "ERRORS (k)" heading, before the Warning-severity messages
\* under a "WARNINGS (m)" heading, each group in the linter's order; a
\* heading is printed iff its group is not empty, and k and m are the file's
\* errorCount and warningCount.
C9_DetailGrouping ==
    Reported =>
        \A i \in 1..Len(Detailed) :
            LET f == files_with_issues[i]
                sec == Section(i)
                errs == SelectSeq(f.messages, LAMBDA m : m.severity = 2)
                warns == SelectSeq(f.messages, LAMBDA m : m.severity = 1)
                printed == SelectSeq(sec, LAMBDA l : l.k = "msg")
                eh == Positions(sec, LAMBDA l : l.k = "ERRORS")
                wh == Positions(sec, LAMBDA l : l.k = "WARNINGS")
                em == Positions(sec, LAMBDA l : l.k = "msg" /\ l.severity = "error")
                wm == Positions(sec, LAMBDA l : l.k = "msg" /\ l.severity = "warning")
            IN  /\ [j \in 1..Len(printed) |-> Shown(printed[j])]
                     = [j \in 1..Len(errs) |-> Shown(errs[j])]
                         \o [j \in 1..Len(warns) |-> Shown(warns[j])]
                /\ \A j \in 1..Len(printed) :
                      printed[j].severity
                        = IF j <= Len(errs) THEN "error" ELSE "warning"
                /\ Cardinality(eh) = IF errs # <<>> THEN 1 ELSE 0
                /\ Cardinality(wh) = IF warns # <<>> THEN 1 ELSE 0
                /\ \A h \in eh : /\ sec[h].n = f.errors
                                 /\ \A j \in em \cup wh \cup wm : h < j
                /\ \A h \in wh : /\ sec[h].n = f.warnings
                                 /\ \A j \in em : j < h
                                 /\ \A j \in wm : h < j

\* A detailed file whose messages the linter gave as warning, error, error.
C9_Witness ==
    /\ Reported
    /\ pc = "done"
    /\ detail_count >= 1
    /\ Len(files_with_issues) >= 1
    /\ files_with_issues[1].messages = <<W1, E2, E1>>
    /\ Len(Lines("ERRORS")) = 1
    /\ Len(Lines("WARNINGS")) = 2

----------------------------------------------------------------------------
(* get_options on every list of up to MaxArgs tokens.                      *)

Tokens ==
    {Src, <<"S", "R", "C">>, Test, All, <<"s", "r", "c", "s">>, <<"x">>, <<>>,
     <<"5">>, <<"0", "7">>, <<"1", "2">>, <<"-", "1">>, <<"1", ".", "5">>,
     Sup2, <<"1", "sup2">>}

InitOptions ==
    \E a \in SeqsUpTo(Tokens, MaxArgs) : InitWith(a, Healthy(TextOf("empty")))

SpecOptions == InitOptions /\ [][GetOptions]_vars

Last(S) == CHOOSE i \in S : \A j \in S : j <= i

\* A non-negative decimal integer: one or more of the digits 0-9.
IsDecimal(s) == Len(s) > 0 /\ \A i \in 1..Len(s) : s[i] \in AsciiDigits

ClaimedMode(args) ==
    LET hits == {i \in 1..Len(args) : Lower(args[i]) \in ModeWords}
    IN  IF hits = {} THEN "all" ELSE ModeName(Lower(args[Last(hits)]))

ClaimedCount(args) ==
    LET hits == {i \in 1..Len(args) : IsDecimal(args[i])}
    IN  IF hits = {} THEN 10 ELSE DecimalValue(args[Last(hits)])

\* C4: for every list of tokens get_options raises nothing and returns the
\* lower-cased last token that matches src/test/all without regard to case
\* (or 'all') and the value of the last token that is a non-negative decimal
\* integer (or 10); the other tokens change nothing.
C4_OptionsParsed ==
    pc # "options" =>
        /\ exc = "none"
        /\ filter_mode = ClaimedMode(argv)
        /\ detail_count = ClaimedCount(argv)

----------------------------------------------------------------------------
(* should_include_file on the paths made of up to MaxChunks chunks, each   *)
(* path in a result list with a source file and a test file, the list      *)
(* built under each filter mode.                                           *)

Modes == {"all", "src", "test"}

RECURSIVE Flatten(_)
Flatten(ss) == IF ss = <<>> THEN <<>> ELSE Head(ss) \o Flatten(Tail(ss))

Chunks ==
    {<<"/">>, <<".">>, <<"a">>, <<"t", "s">>, <<"t", "e", "s">>,
     <<"t", "e", "s", "t">>, <<"s", "p", "e", "c">>}

ChunkPaths == {Flatten(cs) : cs \in SeqsUpTo(Chunks, MaxChunks)}

IdleWith(p) ==
    /\ argv = <<>>
    /\ env = Healthy(TextOf("empty"))
    /\ pc = "probe"
    /\ filter_mode = ""
    /\ detail_count = -1
    /\ result = NoResult
    /\ data = NoDoc
    /\ cwd = <<>>
    /\ files_with_issues = <<>>
    /\ exc = "none"
    /\ output = <<>>
    /\ exit_code = -1
    /\ probe = p

InitFilter ==
    \E path \in ChunkPaths :
        IdleWith([kind |-> "filter", path |-> path, done |-> {},
                  included |-> [m \in Modes |-> FALSE],
                  kept |-> [m \in Modes |-> <<>>]])

FilterItems(path) ==
    <<LintResult(Under(WorkDir, path), <<E1>>),
      LintResult(Under(WorkDir, SrcFile), <<W1>>),
      LintResult(Under(WorkDir, TestFile), <<E2>>)>>

\* should_include_file(path, mode), and lines 50-66 under that mode
Classify(mode) ==
    /\ probe.kind = "filter"
    /\ mode \notin probe.done
    /\ probe' = [probe EXCEPT
                    !.done = @ \cup {mode},
                    !.included[mode] = should_include_file(probe.path, mode),
                    !.kept[mode] = BuildReports(FilterItems(probe.path),
                                                WorkDir, mode)]
    /\ UNCHANGED <<argv, env, pc, filter_mode, detail_count, result, data, cwd,
                   files_with_issues, exc, output, exit_code>>

NextFilter == \E mode \in Modes : Classify(mode)

SpecFilter == InitFilter /\ [][NextFilter]_vars

HasTestMarker(path) ==
    \/ Contains(path, <<"/", "t", "e", "s", "t">>)
    \/ Contains(path, <<".", "t", "e", "s", "t", ".">>)
    \/ Contains(path, <<".", "s", "p", "e", "c", ".">>)

\* C3: every path is included under 'all' and under exactly one of 'src'
\* and 'test', under 'test' iff it contains "/test", ".test." or ".spec.";
\* the reports kept under 'src' and under 'test' are disjoint and together
\* are the reports kept under 'all'.
C3_FilterPartition ==
    (probe.kind = "filter" /\ probe.done = Modes) =>
        /\ probe.included["all"]
        /\ probe.included["src"] # probe.included["test"]
        /\ probe.included["test"] <=> HasTestMarker(probe.path)
        /\ Range(probe.kept["src"]) \cap Range(probe.kept["test"]) = {}
        /\ Range(probe.kept["src"]) \cup Range(probe.kept["test"])
             = Range(probe.kept["all"])
        /\ Len(probe.kept["src"]) + Len(probe.kept["test"])
             = Len(probe.kept["all"])

\* A path with ".spec." and neither "/test" nor ".test.", classified under
\* the three modes and kept under 'test' with the test file.
C3_Witness ==
    /\ probe.kind = "filter"
    /\ probe.done = Modes
    /\ Contains(probe.path, DotSpecDot)
    /\ ~Contains(probe.path, SlashTest)
    /\ ~Contains(probe.path, DotTestDot)
    /\ probe.included["test"]
    /\ Len(probe.kept["test"]) = 2
    /\ Len(probe.kept["src"]) = 1

----------------------------------------------------------------------------
(* The reported path, line 53, on the absolute paths made of up to         *)
(* MaxPieces pieces, under two working directories.                        *)

Pieces == {<<"/", "w">>, <<"/">>, <<"a">>, <<"w">>, <<"/", "t", "e", "s", "t">>}

\* The linter gives absolute, normalised paths of files: a leading "/", no
\* empty segment, no trailing "/".
PiecePaths ==
    {p \in {Flatten(ps) : ps \in SeqsUpTo(Pieces, MaxPieces)} :
        /\ Len(p) > 1
        /\ p[1] = "/"
        /\ p[Len(p)] # "/"
        /\ ~Contains(p, <<"/", "/">>)}

WorkDirs == {WorkDir, <<"/", "t", "e", "s", "t">>}

InitPath ==
    \E filePath \in PiecePaths, wd \in WorkDirs :
        IdleWith([kind |-> "path", filePath |-> filePath, cwd |-> wd,
                  done |-> FALSE, mode |-> "", kept |-> <<>>])

\* lines 50-66 on the one result of the file, under a mode
Relativize(mode) ==
    /\ probe.kind = "path"
    /\ ~probe.done
    /\ probe' = [probe EXCEPT
                    !.done = TRUE,
                    !.mode = mode,
                    !.kept = BuildReports(<<LintResult(probe.filePath, <<E1>>)>>,
                                          probe.cwd, mode)]
    /\ UNCHANGED <<argv, env, pc, filter_mode, detail_count, result, data, cwd,
                   files_with_issues, exc, output, exit_code>>

NextPath == \E mode \in Modes : Relativize(mode)

SpecPath == InitPath /\ [][NextPath]_vars

\* filePath without the working directory as a prefix
WithoutPrefix(filePath, wd) ==
    IF StartsWith(filePath, wd \o <<"/">>)
    THEN SubSeq(filePath, Len(wd) + 2, Len(filePath))
    ELSE filePath

\* C10: the reported path is filePath without its leading cwd + "/" when it
\* starts with it, later occurrences kept, and filePath unchanged when it
\* does not; the filter is applied to that path.
C10_PrefixOnly ==
    (probe.kind = "path" /\ probe.done) =>
        LET claimed == WithoutPrefix(probe.filePath, probe.cwd)
        IN  /\ probe.kept # <<>> <=> should_include_file(claimed, probe.mode)
            /\ probe.kept # <<>> => probe.kept[1].path = claimed

====
